---- MODULE Spec2Model ----
(***************************************************************************)
(* FIRMS prebake (tools/serve-static.mjs, second script) and the local     *)
(* batch import (unnamed/part_000).                                        *)
(*                                                                         *)
(* Coordinates are fixed-point integers in units of 1e-5 degree, so that   *)
(* toFixed(4) is a real rounding.  A calendar month is a pair <<y, m>>;    *)
(* the zero-padded "YYYY-MM" strings of the code compare like these pairs. *)
(***************************************************************************)
EXTENDS Integers, Sequences, FiniteSets, TLC

VARIABLES
  retryEmpty,  \* argv.retryEmpty
  months,      \* monthList(argv.start, argv.end): sequence of <<y, m>>
  idx,         \* position of the main loop in months (1-based)
  pc,          \* where the run is (see PcValues)
  files,       \* the output directory: month -> file
  si,          \* index into SOURCES of the source being fetched
  wi,          \* index into the month's windows
  attempt,     \* loop variable of fetchSliceRetry
  uniq,        \* the month bucket: a Map in insertion order, <<[k, f], ...>>
  sawLimit,    \* prebakeMonth's flag
  out,         \* features fetchSlice returned, held while pacing
  err,         \* the error thrown out of fetchSliceRetry, while it propagates
  sleepMs,     \* the delay being slept (0 when not sleeping)
  \* history of the month being assembled
  limits,      \* rate-limit responses received by the current fetchSliceRetry
  fetched,     \* calls of fetchSliceRetry made for this month
  sawOk,       \* some window of this month ended Succeeded
  sawExh,      \* some window of this month ended Exhausted
  sawErr,      \* some window of this month ended with a propagated error
  decision,    \* "none" | "skipped" | "written" | "deferred"
  startFile,   \* the month's file when its assembly began
  firstSeen,   \* per identity key, the first feature returned and its source
  crossDup,    \* a later copy of a key with another frp came from another source
  \* history of the run
  run,         \* 1 for the first run, 2 for a re-run with the same configuration
  runClean,    \* every response of this run so far was a success
  requested,   \* a request was issued in this run
  writes,      \* month -> number of writes of its file in this run
  prev,        \* what the previous run achieved (set when a re-run starts)
  wreq,        \* requests issued by the current fetchSliceRetry
  inflight,    \* requests issued and not yet answered
  owed,        \* a response was received whose delay has not yet been slept
  nreq,        \* requests issued in this run (counted by IssueCounted only)
  \* batch import (part_000)
  inFiles,     \* the input folder: sequence of files, each a sequence of rows
  fi,          \* index of the next input file to read
  buckets,     \* month -> Map(dedupKey -> feature), in insertion order
  impFirst,    \* month -> first feature met per key (history)
  impWritten,  \* months whose file the import has written
  \* the pure functions taken alone
  fnIn,        \* the input drawn
  fnOut        \* what the functions return for it

vars == <<retryEmpty, months, idx, pc, files, si, wi, attempt, uniq, sawLimit,
          out, err, sleepMs, limits, fetched, sawOk, sawExh, sawErr, decision,
          startFile, firstSeen, crossDup, run, runClean, requested, writes,
          prev, wreq, inflight, owed, nreq,
          inFiles, fi, buckets, impFirst, impWritten, fnIn, fnOut>>

fetchVars == <<retryEmpty, months, idx, si, wi, attempt, uniq, sawLimit, out,
               err, sleepMs, limits, fetched, sawOk, sawExh, sawErr, decision,
               startFile, firstSeen, crossDup, run, runClean, requested,
               writes, prev, wreq, inflight, owed, nreq>>

importVars == <<inFiles, fi, buckets, impFirst, impWritten, fnIn, fnOut>>

----------------------------------------------------------------------------
(* Program constants *)

MAX_RETRIES == 4
DAY_MAX == 10
THROTTLE_MS == 800
BackoffBaseMs == 15000
BackoffCapMs == 120000

SOURCES == <<"MODIS_SP", "VIIRS_SNPP_SP", "VIIRS_NOAA20_SP", "VIIRS_NOAA21_NRT">>

\* SOURCE_START[source].slice(0,7), '1900-01' for an unknown source
SourceStartYM(source) ==
  CASE source \in {"MODIS_SP", "MODIS_NRT"} -> <<2000, 11>>
    [] source \in {"VIIRS_SNPP_SP", "VIIRS_SNPP_NRT"} -> <<2012, 1>>
    [] source \in {"VIIRS_NOAA20_SP", "VIIRS_NOAA20_NRT"} -> <<2020, 1>>
    [] source = "VIIRS_NOAA21_NRT" -> <<2024, 1>>
    [] OTHER -> <<1900, 1>>

(* Bounds of the model *)
MaxMonths == 2   \* longest explicit --months list
MaxRuns == 2     \* runs of the script over the same output directory
MaxInFiles == 2  \* files in the import's input folder
MaxSeq == 3      \* longest sequence of features handed to the fold alone

----------------------------------------------------------------------------
(* Calendar and planning *)

ymLt(a, b) == a[1] < b[1] \/ (a[1] = b[1] /\ a[2] < b[2])

IsLeap(y) == (y % 4 = 0 /\ y % 100 # 0) \/ y % 400 = 0

daysInMonth(y, m) ==
  IF m = 2 THEN (IF IsLeap(y) THEN 29 ELSE 28)
  ELSE IF m \in {4, 6, 9, 11} THEN 30 ELSE 31

RECURSIVE MonthRange(_, _, _, _)
MonthRange(y, m, ye, me) ==
  IF y < ye \/ (y = ye /\ m <= me)
  THEN <<<<y, m>>>> \o (IF m + 1 > 12 THEN MonthRange(y + 1, 1, ye, me)
                                      ELSE MonthRange(y, m + 1, ye, me))
  ELSE <<>>

\* argv.months is the empty sequence when the option is not given
monthList(startYM, endYM, monthsArg) ==
  IF monthsArg # <<>> THEN monthsArg
  ELSE MonthRange(startYM[1], startYM[2], endYM[1], endYM[2])

\* a mutation: the last window is not truncated
RECURSIVE WindowsFromFullSpan(_, _)
WindowsFromFullSpan(d, dim) ==
  IF d <= dim
  THEN <<[day |-> d, dayRange |-> DAY_MAX]>> \o WindowsFromFullSpan(d + DAY_MAX, dim)
  ELSE <<>>

RECURSIVE WindowsFrom(_, _)
WindowsFrom(d, dim) ==
  IF d <= dim
  THEN <<[day |-> d, dayRange |-> IF DAY_MAX < dim - d + 1 THEN DAY_MAX ELSE dim - d + 1]>>
       \o WindowsFrom(d + DAY_MAX, dim)
  ELSE <<>>

planWindows(ym) == WindowsFrom(1, daysInMonth(ym[1], ym[2]))

----------------------------------------------------------------------------
(* Rows, features and identity keys *)

NaN == -999999999

\* Number(text) of a coordinate column: the fixed-point value, NaN for text
\* that is no numeral
Number(text) == IF text = "abc" THEN NaN
                ELSE CASE text = "" -> 0
                       [] text = "37.12344" -> 3712344
                       [] text = "37.12336" -> 3712336
                       [] text = "-119.50006" -> -11950006
                       [] text = "-119.50014" -> -11950014
                       [] text = "-119.60000" -> -11960000
                       [] OTHER -> NaN

Abs(x) == IF x < 0 THEN -x ELSE x

\* x.toFixed(4): sign and magnitude in units of 1e-4 (<<2, 0>> for "NaN").
\* The sign is printed apart from the digits, so -0.00003 gives "-0.0000".
\* A tie (a fifth decimal of exactly 5) is decided in the code by the binary
\* value of the double; the rows of the model have no ties.
toFixed4(x) ==
  IF x = NaN THEN <<2, 0>>
  ELSE <<IF x < 0 THEN 1 ELSE 0, (Abs(x) + 5) \div 10>>

rowToFeature(row) ==
  [lon |-> Number(row.longitude), lat |-> Number(row.latitude),
   acq_date |-> row.acq_date, acq_time |-> row.acq_time,
   satellite |-> row.satellite, instrument |-> row.instrument,
   frp |-> row.frp]

featureKey(f) ==
  <<toFixed4(f.lon), toFixed4(f.lat), f.acq_date, f.acq_time, f.instrument,
    f.satellite>>

RowA == [latitude |-> "37.12344", longitude |-> "-119.50006",
         acq_date |-> <<2012, 1, 5>>, acq_time |-> "1030",
         satellite |-> "Terra", instrument |-> "MODIS", frp |-> 10]
\* the same detection as RowA as another source reports it
RowB == [latitude |-> "37.12336", longitude |-> "-119.50014",
         acq_date |-> <<2012, 1, 5>>, acq_time |-> "1030",
         satellite |-> "Terra", instrument |-> "MODIS", frp |-> 25]
RowC == [latitude |-> "37.12344", longitude |-> "-119.60000",
         acq_date |-> <<2012, 1, 5>>, acq_time |-> "1030",
         satellite |-> "Terra", instrument |-> "MODIS", frp |-> 7]

\* response bodies of the upstream, already split into rows
Bodies == {<<>>, <<RowA>>, <<RowB, RowC>>}

\* fetchSlice: rows.map(rowToFeature)
rowsToFeatures(rows) == [i \in 1..Len(rows) |-> rowToFeature(rows[i])]

----------------------------------------------------------------------------
(* The month bucket: a JavaScript Map *)

MapHas(map, k) == \E i \in 1..Len(map) : map[i].k = k

MapSet(map, k, f) ==
  IF MapHas(map, k)
  THEN [i \in 1..Len(map) |-> IF map[i].k = k THEN [k |-> k, f |-> f] ELSE map[i]]
  ELSE Append(map, [k |-> k, f |-> f])

MapValues(map) == [i \in 1..Len(map) |-> map[i].f]

\* a mutation: every copy overwrites the entry
FoldOneLastWins(map, f) == MapSet(map, featureKey(f), f)

\* a mutation: every copy is added to the bucket
FoldOneKeepsAll(map, f) == Append(map, [k |-> featureKey(f), f |-> f])

\* prebakeMonth, the body of `for (const f of feats)`
FoldOne(map, f) ==
  IF ~MapHas(map, featureKey(f)) THEN MapSet(map, featureKey(f), f) ELSE map

RECURSIVE FoldAll(_, _)
FoldAll(map, feats) ==
  IF feats = <<>> THEN map
  ELSE FoldAll(FoldOne(map, Head(feats)), Tail(feats))

----------------------------------------------------------------------------
(* The output directory *)

Absent == [kind |-> "absent", features |-> <<>>]
Corrupt == [kind |-> "corrupt", features |-> <<>>]
Json(feats) == [kind |-> "json", features |-> feats]

pathExists(file) == file.kind # "absent"

NullCount == -1

readExistingCount(file) ==
  IF file.kind = "json" THEN Len(file.features) ELSE NullCount

\* a mutation: an unreadable file counts as populated
ShouldSkipNullSkips(re, file) ==
  pathExists(file) /\ (~re \/ readExistingCount(file) # 0)

\* a mutation: only the flag decides; populated files are rebuilt
ShouldSkipFlagOnly(re, file) == pathExists(file) /\ ~re

\* a mutation: nothing is ever skipped
ShouldSkipNever(re, file) == FALSE

\* a mutation: an empty file counts as done
ShouldSkipAnyReadable(re, file) ==
  pathExists(file) /\ (~re \/ readExistingCount(file) # NullCount)

\* prebakeMonth, the existing-file check
ShouldSkip(re, file) ==
  IF pathExists(file)
  THEN IF ~re THEN TRUE
       ELSE LET n == readExistingCount(file) IN
            IF n = NullCount THEN FALSE
            ELSE n > 0
  ELSE FALSE

----------------------------------------------------------------------------
(* Errors *)

NoError == [kind |-> "none", status |-> 0]
HttpError(status) == [kind |-> "http", status |-> status]  \* fetchSlice: `HTTP ${res.status} ...`
OtherError == [kind |-> "other", status |-> 0]             \* network failure, CSV parse error

NullStatus == 0

httpStatusFromError(e) == IF e.kind = "http" THEN e.status ELSE NullStatus

IsRateLimit(code) == code = 403 \/ code = 429

Min(a, b) == IF a < b THEN a ELSE b

\* a mutation: the delay doubles with each attempt
backoffMsDoubling(n) == Min(BackoffCapMs, BackoffBaseMs * (2 ^ n))

backoffMs(n) == Min(BackoffCapMs, BackoffBaseMs * (n + 1))

\* a mutation: one attempt fewer
RetryAgainOffByOne(n) == n < MAX_RETRIES

\* a mutation: one attempt more
RetryAgainOneMore(n) == n <= MAX_RETRIES + 1

\* fetchSliceRetry, the loop condition
RetryAgain(n) == n <= MAX_RETRIES

----------------------------------------------------------------------------
(* Inputs of the model *)

MonthUniverse == {<<2011, 12>>, <<2012, 1>>}

Statuses == {200, 403, 429, 500}

ExplicitLists == UNION {[1..n -> MonthUniverse] : n \in 1..MaxMonths}

ArgvSet ==
  {[start |-> a, end |-> b, months |-> <<>>] : a \in MonthUniverse, b \in MonthUniverse}
  \cup {[start |-> <<2011, 12>>, end |-> <<2011, 12>>, months |-> l] : l \in ExplicitLists}

InitialFiles == {Absent, Corrupt, Json(<<>>), Json(<<rowToFeature(RowA)>>)}

Range(s) == {s[i] : i \in 1..Len(s)}

PcValues == {"check", "attempting", "inflight", "backoff", "succeeded",
             "exhausted", "failed", "decide", "monthEnd", "done",
             "read", "write", "imported", "fn", "fnDone"}

\* nothing drawn, nothing computed (the runs of the two scripts)
NoInput == [op |-> "none", row |-> RowA, ym |-> <<2012, 1>>, feats |-> <<>>]
NoOutput == [fetchFeats |-> <<>>, importFeats |-> <<>>, windows |-> <<>>,
             bucket |-> <<>>, importBucket |-> [ym \in MonthUniverse |-> <<>>]]

NoPrev == [ran |-> FALSE, clean |-> FALSE, allWritten |-> FALSE, allNonEmpty |-> FALSE]

----------------------------------------------------------------------------
(* The prebake run *)

CurMonth == months[idx]

Applicable(ym, s) == ~ymLt(ym, SourceStartYM(SOURCES[s]))

\* a mutation: no source is passed over
FirstSourceNoSkip(ym, from) == IF from <= Len(SOURCES) THEN from ELSE 0

\* the next source at or after `from` that the loop does not `continue` past; 0 if none
FirstSource(ym, from) ==
  IF \E s \in from..Len(SOURCES) : Applicable(ym, s)
  THEN CHOOSE s \in from..Len(SOURCES) :
         Applicable(ym, s) /\ \A t \in from..(s - 1) : ~Applicable(ym, t)
  ELSE 0

\* calls of fetchSliceRetry one assembly of the month makes
NumFetches(ym) ==
  Cardinality({s \in 1..Len(SOURCES) : Applicable(ym, s)}) * Len(planWindows(ym))

ResetMonthHistory ==
  /\ fetched' = 0 /\ sawOk' = FALSE /\ sawExh' = FALSE /\ sawErr' = FALSE
  /\ decision' = "none" /\ startFile' = Absent /\ firstSeen' = <<>>
  /\ crossDup' = FALSE

\* enter fetchSliceRetry for slot (s, w), or leave the loops when s = 0
GoTo(s, w) ==
  /\ si' = s /\ wi' = w /\ attempt' = 0 /\ limits' = 0 /\ wreq' = 0
  /\ IF s = 0
     THEN pc' = "decide" /\ fetched' = fetched
     ELSE pc' = "attempting" /\ fetched' = fetched + 1

\* the step of `for (const w of windows)` / `for (const source of SOURCES)`
Advance ==
  IF wi < Len(planWindows(CurMonth))
  THEN GoTo(si, wi + 1)
  ELSE LET s == FirstSource(CurMonth, si + 1) IN GoTo(s, IF s = 0 THEN 0 ELSE 1)

Init ==
  /\ retryEmpty \in BOOLEAN
  /\ \E a \in ArgvSet : months = monthList(a.start, a.end, a.months)
  /\ files \in [MonthUniverse -> InitialFiles]
  /\ \A ym \in MonthUniverse : ym \notin Range(months) => files[ym] = Absent
  /\ idx = 1
  /\ pc = IF months = <<>> THEN "done" ELSE "check"
  /\ si = 0 /\ wi = 0 /\ attempt = 0
  /\ uniq = <<>> /\ sawLimit = FALSE /\ out = <<>> /\ err = NoError
  /\ sleepMs = 0 /\ limits = 0 /\ fetched = 0
  /\ sawOk = FALSE /\ sawExh = FALSE /\ sawErr = FALSE
  /\ decision = "none" /\ startFile = Absent /\ firstSeen = <<>>
  /\ crossDup = FALSE
  /\ run = 1 /\ runClean = TRUE /\ requested = FALSE
  /\ writes = [ym \in MonthUniverse |-> 0]
  /\ prev = NoPrev
  /\ wreq = 0 /\ inflight = 0 /\ owed = FALSE /\ nreq = 0
  /\ fnIn = NoInput /\ fnOut = NoOutput
  /\ inFiles = <<>> /\ fi = 0
  /\ buckets = [ym \in MonthUniverse |-> <<>>]
  /\ impFirst = [ym \in MonthUniverse |-> <<>>]
  /\ impWritten = {}

\* prebakeMonth up to the first request: the existing-file check, the window
\* plan, the empty bucket
StartMonth ==
  /\ pc = "check"
  /\ startFile' = files[CurMonth]
  /\ sawOk' = FALSE /\ sawExh' = FALSE /\ sawErr' = FALSE
  /\ firstSeen' = <<>> /\ crossDup' = FALSE
  /\ uniq' = <<>> /\ sawLimit' = FALSE
  /\ IF ShouldSkip(retryEmpty, files[CurMonth])
     THEN /\ pc' = "monthEnd" /\ decision' = "skipped"
          /\ UNCHANGED <<si, wi, attempt, limits, fetched, wreq>>
     ELSE /\ decision' = "none"
          /\ LET s == FirstSource(CurMonth, 1) IN GoTo(s, IF s = 0 THEN 0 ELSE 1)
  /\ UNCHANGED <<retryEmpty, months, idx, files, out, err, sleepMs, run,
                 runClean, requested, writes, prev>>
  /\ UNCHANGED <<inflight, owed, nreq>>
  /\ UNCHANGED importVars

\* fetchSlice: `await fetch(url)` goes out
IssueWith(counted) ==
  /\ pc = "attempting"
  /\ RetryAgain(attempt)
  /\ pc' = "inflight"
  /\ wreq' = wreq + 1 /\ inflight' = inflight + 1
  /\ nreq' = IF counted THEN nreq + 1 ELSE nreq
  /\ owed' = owed
  /\ requested' = TRUE
  /\ UNCHANGED <<retryEmpty, months, idx, files, si, wi, attempt, uniq,
                 sawLimit, out, err, sleepMs, limits, fetched, sawOk, sawExh,
                 sawErr, decision, startFile, firstSeen, crossDup, run,
                 runClean, writes, prev>>
  /\ UNCHANGED importVars

Issue == IssueWith(FALSE)

\* the same step, with the requests of the run counted
IssueCounted == IssueWith(TRUE)

\* the loop of fetchSliceRetry ends: `return []`
GiveUp ==
  /\ pc = "attempting"
  /\ ~RetryAgain(attempt)
  /\ pc' = "exhausted"
  /\ out' = <<>>
  /\ UNCHANGED <<retryEmpty, months, idx, files, si, wi, attempt, uniq,
                 sawLimit, err, sleepMs, limits, fetched, sawOk, sawExh,
                 sawErr, decision, startFile, firstSeen, crossDup, run,
                 runClean, requested, writes, prev>>
  /\ UNCHANGED <<wreq, inflight, owed, nreq>>
  /\ UNCHANGED importVars

\* a 2xx response: parse, map rowToFeature, then `await sleep(THROTTLE_MS)`
RespondOk ==
  /\ pc = "inflight"
  /\ \E body \in Bodies : out' = rowsToFeatures(body)
  /\ pc' = "succeeded"
  /\ sleepMs' = THROTTLE_MS
  /\ UNCHANGED <<retryEmpty, months, idx, files, si, wi, attempt, uniq,
                 sawLimit, err, limits, fetched, sawOk, sawExh, sawErr,
                 decision, startFile, firstSeen, crossDup, run, runClean,
                 requested, writes, prev>>
  /\ inflight' = inflight - 1 /\ owed' = TRUE
  /\ UNCHANGED <<wreq, nreq>>
  /\ UNCHANGED importVars

\* a mutation: a rate-limited attempt is retried at once, without a sleep
CaughtNoBackoff(e) ==
  IF IsRateLimit(httpStatusFromError(e))
  THEN /\ pc' = IF attempt + limits < MAX_RETRIES THEN "attempting" ELSE "exhausted"
       /\ sleepMs' = 0
       /\ limits' = limits + 1
       /\ err' = err
  ELSE /\ pc' = "failed"
       /\ err' = e
       /\ UNCHANGED <<sleepMs, limits>>

\* the catch of fetchSliceRetry
Caught(e) ==
  IF IsRateLimit(httpStatusFromError(e))
  THEN /\ pc' = "backoff"
       /\ sleepMs' = backoffMs(attempt)
       /\ limits' = limits + 1
       /\ err' = err
  ELSE /\ pc' = "failed"
       /\ err' = e
       /\ UNCHANGED <<sleepMs, limits>>

\* a non-2xx response: fetchSlice throws `HTTP <status>`
RespondError ==
  /\ pc = "inflight"
  /\ \E status \in Statuses \ {200} :
       /\ Caught(HttpError(status))
       /\ owed' = IsRateLimit(status)
  /\ runClean' = FALSE
  /\ UNCHANGED <<retryEmpty, months, idx, files, si, wi, attempt, uniq,
                 sawLimit, out, fetched, sawOk, sawExh, sawErr, decision,
                 startFile, firstSeen, crossDup, run, requested, writes, prev>>
  /\ inflight' = inflight - 1
  /\ UNCHANGED <<wreq, nreq>>
  /\ UNCHANGED importVars

\* fetch rejects, or the body does not parse
TransportFail ==
  /\ pc = "inflight"
  /\ Caught(OtherError)
  /\ runClean' = FALSE
  /\ UNCHANGED <<retryEmpty, months, idx, files, si, wi, attempt, uniq,
                 sawLimit, out, fetched, sawOk, sawExh, sawErr, decision,
                 startFile, firstSeen, crossDup, run, requested, writes, prev>>
  /\ inflight' = inflight - 1 /\ owed' = FALSE
  /\ UNCHANGED <<wreq, nreq>>
  /\ UNCHANGED importVars

\* `await sleep(backoff); continue;`
BackoffDone ==
  /\ pc = "backoff"
  /\ attempt' = attempt + 1
  /\ pc' = "attempting"
  /\ sleepMs' = 0
  /\ UNCHANGED <<retryEmpty, months, idx, files, si, wi, uniq, sawLimit, out,
                 err, limits, fetched, sawOk, sawExh, sawErr, decision,
                 startFile, firstSeen, crossDup, run, runClean, requested,
                 writes, prev>>
  /\ owed' = FALSE
  /\ UNCHANGED <<wreq, inflight, nreq>>
  /\ UNCHANGED importVars

\* history: the first feature returned for each identity key, with its source
RECURSIVE Observe(_, _, _)
Observe(fs, feats, s) ==
  IF feats = <<>> THEN fs
  ELSE LET f == Head(feats) IN
       Observe(IF \E i \in 1..Len(fs) : fs[i].k = featureKey(f) THEN fs
               ELSE Append(fs, [k |-> featureKey(f), f |-> f, src |-> s]),
               Tail(feats), s)

SeesCrossDup(fs, feats, s) ==
  \E i \in 1..Len(fs), j \in 1..Len(feats) :
    /\ fs[i].k = featureKey(feats[j])
    /\ fs[i].src # s
    /\ fs[i].f.frp # feats[j].frp

\* the pacing sleep ends, fetchSliceRetry returns `out`, prebakeMonth folds it
\* into the bucket and goes on to the next window
PaceDone ==
  /\ pc = "succeeded"
  /\ uniq' = FoldAll(uniq, out)
  /\ firstSeen' = Observe(firstSeen, out, si)
  /\ crossDup' = (crossDup \/ SeesCrossDup(firstSeen, out, si))
  /\ sawOk' = TRUE
  /\ out' = <<>>
  /\ sleepMs' = 0
  /\ Advance
  /\ UNCHANGED <<retryEmpty, months, idx, files, sawLimit, err, sawExh,
                 sawErr, decision, startFile, run, runClean, requested,
                 writes, prev>>
  /\ owed' = FALSE
  /\ UNCHANGED <<inflight, nreq>>
  /\ UNCHANGED importVars

\* fetchSliceRetry returned [] after the last retry: nothing to fold
ReturnEmpty ==
  /\ pc = "exhausted"
  /\ uniq' = FoldAll(uniq, out)
  /\ sawExh' = TRUE
  /\ Advance
  /\ UNCHANGED <<retryEmpty, months, idx, files, sawLimit, out, err, sleepMs,
                 sawOk, sawErr, decision, startFile, firstSeen, crossDup, run,
                 runClean, requested, writes, prev>>
  /\ UNCHANGED <<inflight, owed, nreq>>
  /\ UNCHANGED importVars

\* a mutation: a failed window ends the run
CatchWindowAborts ==
  /\ pc = "failed"
  /\ pc' = "done"
  /\ sawErr' = TRUE
  /\ err' = NoError
  /\ UNCHANGED <<retryEmpty, months, idx, files, si, wi, attempt, uniq,
                 sawLimit, out, sleepMs, limits, fetched, sawOk, sawExh,
                 decision, startFile, firstSeen, crossDup, run, runClean,
                 requested, writes, prev>>
  /\ UNCHANGED <<wreq, inflight, owed, nreq>>
  /\ UNCHANGED importVars

\* prebakeMonth, the catch around fetchSliceRetry
CatchWindow ==
  /\ pc = "failed"
  /\ sawLimit' = (sawLimit \/ IsRateLimit(httpStatusFromError(err)))
  /\ sawErr' = TRUE
  /\ err' = NoError
  /\ Advance
  /\ UNCHANGED <<retryEmpty, months, idx, files, uniq, out, sleepMs, sawOk,
                 sawExh, decision, startFile, firstSeen, crossDup, run,
                 runClean, requested, writes, prev>>
  /\ UNCHANGED <<inflight, owed, nreq>>
  /\ UNCHANGED importVars

\* a mutation: the rate-limit flag is ignored
ShouldDeferNever(count, limited) == FALSE

\* a mutation: an empty bucket is never written
ShouldDeferWhenEmpty(count, limited) == count = 0

\* prebakeMonth: `count === 0 && sawLimit`
ShouldDefer(count, limited) == count = 0 /\ limited

\* prebakeMonth after the loops: defer, or write the month's file
Decide ==
  /\ pc = "decide"
  /\ IF ShouldDefer(Len(uniq), sawLimit)
     THEN /\ decision' = "deferred"
          /\ UNCHANGED <<files, writes>>
     ELSE /\ decision' = "written"
          /\ files' = [files EXCEPT ![CurMonth] = Json(MapValues(uniq))]
          /\ writes' = [writes EXCEPT ![CurMonth] = @ + 1]
  /\ pc' = "monthEnd"
  /\ UNCHANGED <<retryEmpty, months, idx, si, wi, attempt, uniq, sawLimit,
                 out, err, sleepMs, limits, fetched, sawOk, sawExh, sawErr,
                 startFile, firstSeen, crossDup, run, runClean, requested,
                 prev>>
  /\ UNCHANGED <<wreq, inflight, owed, nreq>>
  /\ UNCHANGED importVars

\* main: prebakeMonth returned, the loop takes the next month
NextMonth ==
  /\ pc = "monthEnd"
  /\ idx' = idx + 1
  /\ pc' = IF idx + 1 > Len(months) THEN "done" ELSE "check"
  /\ si' = 0 /\ wi' = 0 /\ attempt' = 0 /\ limits' = 0 /\ wreq' = 0
  /\ uniq' = <<>> /\ sawLimit' = FALSE
  /\ ResetMonthHistory
  /\ UNCHANGED <<retryEmpty, months, files, out, err, sleepMs, run, runClean,
                 requested, writes, prev>>
  /\ UNCHANGED <<inflight, owed, nreq>>
  /\ UNCHANGED importVars

\* the script is started again with the same arguments on the same directory
Rerun ==
  /\ pc = "done"
  /\ run < MaxRuns
  /\ run' = run + 1
  /\ prev' = [ran |-> TRUE,
              clean |-> runClean,
              allWritten |-> \A ym \in Range(months) : writes[ym] >= 1,
              allNonEmpty |-> \A ym \in Range(months) :
                                 readExistingCount(files[ym]) > 0]
  /\ idx' = 1
  /\ pc' = IF months = <<>> THEN "done" ELSE "check"
  /\ runClean' = TRUE /\ requested' = FALSE
  /\ writes' = [ym \in MonthUniverse |-> 0]
  /\ UNCHANGED <<retryEmpty, months, files, si, wi, attempt, uniq, sawLimit,
                 out, err, sleepMs, limits, fetched, sawOk, sawExh, sawErr,
                 decision, startFile, firstSeen, crossDup>>
  /\ nreq' = 0
  /\ UNCHANGED <<wreq, inflight, owed>>
  /\ UNCHANGED importVars

Next ==
  \/ StartMonth
  \/ Issue
  \/ GiveUp
  \/ RespondOk
  \/ RespondError
  \/ TransportFail
  \/ BackoffDone
  \/ PaceDone
  \/ ReturnEmpty
  \/ CatchWindow
  \/ Decide
  \/ NextMonth
  \/ Rerun

Spec == Init /\ [][Next]_vars

\* one run over a month range with the default --retryEmpty, its requests
\* counted; a month's file is absent or populated
InitCount ==
  /\ Init
  /\ retryEmpty
  /\ \E a, b \in MonthUniverse : months = MonthRange(a[1], a[2], b[1], b[2])
  /\ \A ym \in MonthUniverse :
       files[ym] \in {Absent, Json(<<rowToFeature(RowA)>>)}

NextCount ==
  \/ StartMonth
  \/ IssueCounted
  \/ GiveUp
  \/ RespondOk
  \/ RespondError
  \/ TransportFail
  \/ BackoffDone
  \/ PaceDone
  \/ ReturnEmpty
  \/ CatchWindow
  \/ Decide
  \/ NextMonth

SpecCount == InitCount /\ [][NextCount]_vars

TypeOK ==
  /\ pc \in PcValues
  /\ retryEmpty \in BOOLEAN
  /\ attempt \in 0..(MAX_RETRIES + 1)
  /\ run \in 1..MaxRuns

----------------------------------------------------------------------------
(* The batch import (unnamed/part_000) *)

\* --bbox default '-125,32,-113.5,43', in units of 1e-5 degree
WEST == -12500000
SOUTH == 3200000
EAST == -11350000
NORTH == 4300000

isInBox(lon, lat) == lon >= WEST /\ lon <= EAST /\ lat >= SOUTH /\ lat <= NORTH

isFinite(x) == x # NaN

toMonthKey(date) == <<date[1], date[2]>>

\* rowToFeature of the import followed by .filter(Boolean): no feature for a
\* row that is rejected.  Rows carry the lower-case column names.
importRowToFeature(row) ==
  LET lat == Number(row.latitude)
      lon == Number(row.longitude)
  IN IF ~isFinite(lat) \/ ~isFinite(lon) THEN <<>>
     ELSE IF ~isInBox(lon, lat) THEN <<>>
     ELSE <<[lon |-> lon, lat |-> lat,
             acq_date |-> row.acq_date, acq_time |-> row.acq_time,
             satellite |-> row.satellite, instrument |-> row.instrument,
             frp |-> row.frp]>>

\* loadOne of a CSV file: rows.map(rowToFeature).filter(Boolean)
RECURSIVE loadOne(_)
loadOne(rows) ==
  IF rows = <<>> THEN <<>>
  ELSE importRowToFeature(Head(rows)) \o loadOne(Tail(rows))

\* a mutation: the import keeps the first copy, as the prebake does
ImportFoldOneFirstWins(bs, ft) ==
  LET mk == toMonthKey(ft.acq_date) IN
  IF MapHas(bs[mk], featureKey(ft)) THEN bs
  ELSE [bs EXCEPT ![mk] = MapSet(@, featureKey(ft), ft)]

\* main, the body of `for (const ft of feats)`: Map.set without a has() test
ImportFoldOne(bs, ft) ==
  LET mk == toMonthKey(ft.acq_date) IN
  [bs EXCEPT ![mk] = MapSet(@, featureKey(ft), ft)]

RECURSIVE ImportFoldAll(_, _)
ImportFoldAll(bs, feats) ==
  IF feats = <<>> THEN bs
  ELSE ImportFoldAll(ImportFoldOne(bs, Head(feats)), Tail(feats))

\* history: per month, the first feature met for each key
RECURSIVE ImportObserve(_, _)
ImportObserve(h, feats) ==
  IF feats = <<>> THEN h
  ELSE LET ft == Head(feats)
           mk == toMonthKey(ft.acq_date)
       IN ImportObserve([h EXCEPT ![mk] = Observe(@, <<ft>>, 0)], Tail(feats))

\* the same detection in the month before
RowD == [latitude |-> "37.12344", longitude |-> "-119.50006",
         acq_date |-> <<2011, 12, 30>>, acq_time |-> "2215",
         satellite |-> "Aqua", instrument |-> "MODIS", frp |-> 3]

InputFiles == {<<RowA>>, <<RowB>>, <<RowA, RowC>>, <<RowB, RowD>>, <<RowA, RowB>>}

InitImport ==
  /\ inFiles \in UNION {[1..n -> InputFiles] : n \in 1..MaxInFiles}
  /\ fi = 1
  /\ pc = "read"
  /\ files \in [MonthUniverse -> {Absent, Json(<<rowToFeature(RowC)>>)}]
  /\ buckets = [ym \in MonthUniverse |-> <<>>]
  /\ impFirst = [ym \in MonthUniverse |-> <<>>]
  /\ impWritten = {}
  /\ retryEmpty = TRUE /\ months = <<>> /\ idx = 1
  /\ si = 0 /\ wi = 0 /\ attempt = 0
  /\ uniq = <<>> /\ sawLimit = FALSE /\ out = <<>> /\ err = NoError
  /\ sleepMs = 0 /\ limits = 0 /\ fetched = 0
  /\ sawOk = FALSE /\ sawExh = FALSE /\ sawErr = FALSE
  /\ decision = "none" /\ startFile = Absent /\ firstSeen = <<>>
  /\ crossDup = FALSE
  /\ run = 1 /\ runClean = TRUE /\ requested = FALSE
  /\ writes = [ym \in MonthUniverse |-> 0]
  /\ prev = NoPrev
  /\ wreq = 0 /\ inflight = 0 /\ owed = FALSE /\ nreq = 0
  /\ fnIn = NoInput /\ fnOut = NoOutput

\* main, one turn of `for (const f of files)`: load the file, fold its features
ReadFile ==
  /\ pc = "read"
  /\ fi <= Len(inFiles)
  /\ LET feats == loadOne(inFiles[fi]) IN
       /\ buckets' = ImportFoldAll(buckets, feats)
       /\ impFirst' = ImportObserve(impFirst, feats)
  /\ fi' = fi + 1
  /\ pc' = IF fi + 1 > Len(inFiles) THEN "write" ELSE "read"
  /\ UNCHANGED <<files, inFiles, impWritten, fnIn, fnOut>>
  /\ UNCHANGED fetchVars

\* months with a bucket that are still to be written
ToWrite == {ym \in MonthUniverse : buckets[ym] # <<>> /\ ym \notin impWritten}

\* main, one turn of `for (const mk of months)`, months in sorted order
WriteMonth ==
  /\ pc = "write"
  /\ ToWrite # {}
  /\ LET mk == CHOOSE ym \in ToWrite : \A other \in ToWrite : ~ymLt(other, ym) IN
       /\ files' = [files EXCEPT ![mk] = Json(MapValues(buckets[mk]))]
       /\ impWritten' = impWritten \cup {mk}
  /\ UNCHANGED <<pc, inFiles, fi, buckets, impFirst, fnIn, fnOut>>
  /\ UNCHANGED fetchVars

ImportDone ==
  /\ pc = "write"
  /\ ToWrite = {}
  /\ pc' = "imported"
  /\ UNCHANGED <<files, inFiles, fi, buckets, impFirst, impWritten, fnIn, fnOut>>
  /\ UNCHANGED fetchVars

NextImport ==
  \/ ReadFile
  \/ WriteMonth
  \/ ImportDone

SpecImport == InitImport /\ [][NextImport]_vars

----------------------------------------------------------------------------
(* The pure functions taken alone: normalizer, window planner, fold *)

\* raw records as the upstream CSV can carry them: each coordinate column a
\* numeral, text that is no numeral, or empty
LatTexts == {"37.12344", "abc", ""}
LonTexts == {"-119.50006", "abc", ""}
NormRows == {[RowA EXCEPT !.latitude = la, !.longitude = lo] :
               la \in LatTexts, lo \in LonTexts}

\* months handed to the planner: every length 28..31, leap and common years
PlanMonths == {<<y, m>> : y \in {2011, 2012, 2100}, m \in 1..12}

\* features handed to the fold: RowA and RowB share a key, RowC and RowD do not
FoldFeatures == {rowToFeature(RowA), rowToFeature(RowB), rowToFeature(RowC),
                 rowToFeature(RowD)}
FoldInputs == UNION {[1..n -> FoldFeatures] : n \in 0..MaxSeq}

FnInputs ==
  {[NoInput EXCEPT !.op = "normalize", !.row = r] : r \in NormRows}
  \cup {[NoInput EXCEPT !.op = "plan", !.ym = ym] : ym \in PlanMonths}
  \cup {[NoInput EXCEPT !.op = "fold", !.feats = fs] : fs \in FoldInputs}

EmptyBuckets == [ym \in MonthUniverse |-> <<>>]

InitFn ==
  /\ fnIn \in FnInputs
  /\ fnOut = NoOutput
  /\ pc = "fn"
  /\ files = [ym \in MonthUniverse |-> Absent]
  /\ inFiles = <<>> /\ fi = 0
  /\ buckets = EmptyBuckets
  /\ impFirst = [ym \in MonthUniverse |-> <<>>]
  /\ impWritten = {}
  /\ retryEmpty = TRUE /\ months = <<>> /\ idx = 1
  /\ si = 0 /\ wi = 0 /\ attempt = 0
  /\ uniq = <<>> /\ sawLimit = FALSE /\ out = <<>> /\ err = NoError
  /\ sleepMs = 0 /\ limits = 0 /\ fetched = 0
  /\ sawOk = FALSE /\ sawExh = FALSE /\ sawErr = FALSE
  /\ decision = "none" /\ startFile = Absent /\ firstSeen = <<>>
  /\ crossDup = FALSE
  /\ run = 1 /\ runClean = TRUE /\ requested = FALSE
  /\ writes = [ym \in MonthUniverse |-> 0]
  /\ prev = NoPrev
  /\ wreq = 0 /\ inflight = 0 /\ owed = FALSE /\ nreq = 0

\* one raw record through each pipeline: fetchSlice's rows.map(rowToFeature)
\* folded into a month bucket, and loadOne's map and filter folded into the
\* import's buckets
ApplyNormalize ==
  /\ pc = "fn" /\ fnIn.op = "normalize"
  /\ LET ff == rowsToFeatures(<<fnIn.row>>)
         fi2 == loadOne(<<fnIn.row>>)
     IN fnOut' = [NoOutput EXCEPT !.fetchFeats = ff,
                                  !.importFeats = fi2,
                                  !.bucket = FoldAll(<<>>, ff),
                                  !.importBucket = ImportFoldAll(EmptyBuckets, fi2)]
  /\ pc' = "fnDone"
  /\ UNCHANGED <<files, inFiles, fi, buckets, impFirst, impWritten, fnIn>>
  /\ UNCHANGED fetchVars

\* prebakeMonth, the window plan of one month
ApplyPlan ==
  /\ pc = "fn" /\ fnIn.op = "plan"
  /\ fnOut' = [NoOutput EXCEPT !.windows = planWindows(fnIn.ym)]
  /\ pc' = "fnDone"
  /\ UNCHANGED <<files, inFiles, fi, buckets, impFirst, impWritten, fnIn>>
  /\ UNCHANGED fetchVars

\* a sequence of features folded into an empty bucket, by each script
ApplyFold ==
  /\ pc = "fn" /\ fnIn.op = "fold"
  /\ fnOut' = [NoOutput EXCEPT !.bucket = FoldAll(<<>>, fnIn.feats),
                               !.importBucket =
                                  ImportFoldAll(EmptyBuckets, fnIn.feats)]
  /\ pc' = "fnDone"
  /\ UNCHANGED <<files, inFiles, fi, buckets, impFirst, impWritten, fnIn>>
  /\ UNCHANGED fetchVars

NextFn ==
  \/ ApplyNormalize
  \/ ApplyPlan
  \/ ApplyFold

SpecFn == InitFn /\ [][NextFn]_vars

----------------------------------------------------------------------------
(* Properties of the prebake run *)

AtMonthEnd == pc = "monthEnd"

FetchEnded == pc \in {"succeeded", "exhausted", "failed"}

\* every window of every attempted source ended Exhausted
AllWindowsExhausted == fetched > 0 /\ sawExh /\ ~sawOk /\ ~sawErr

\* C1: when every window of every attempted source of a month ended empty
\* because of rate limiting, the month is deferred and its output file is
\* neither created nor overwritten.
C1_DeferWhenAllRateLimited ==
  (AtMonthEnd /\ AllWindowsExhausted) =>
    /\ decision = "deferred"
    /\ files[CurMonth] = startFile

\* C2: an Exhausted window does not abort the month, counts as zero features,
\* and sawLimit is true when the write/defer decision is taken.
C2_ExhaustedSetsSawLimit ==
  /\ pc = "exhausted" => out = <<>>
  /\ (pc = "decide" /\ sawExh) => sawLimit

\* C3 as stated: with maxRetries = 4, a fetch that has received 4 rate-limit
\* responses ends Exhausted with zero features and no error.
C3_FourLimitsExhaust ==
  (FetchEnded /\ limits >= 4) => (pc = "exhausted" /\ out = <<>> /\ err = NoError)

\* C3 amended: with maxRetries = 4, a fetch that has received 5 (maxRetries+1)
\* consecutive rate-limit responses ends Exhausted with zero features and no
\* error, and issues no further request.
C3_FiveLimitsExhaust ==
  limits >= MAX_RETRIES + 1 =>
    /\ pc \in {"backoff", "attempting", "exhausted"}
    /\ FetchEnded => (pc = "exhausted" /\ out = <<>> /\ err = NoError)

C3_Witness == pc = "exhausted" /\ limits = 5 /\ out = <<>>

\* C4 as stated: an existing file whose count cannot be read is rebuilt, never
\* skipped, whatever the rebuild-empty flag.
C4_UnreadableRebuilt ==
  (AtMonthEnd /\ startFile.kind = "corrupt") =>
    /\ decision \in {"written", "deferred"}
    /\ fetched = NumFetches(CurMonth)

\* C4 amended: with rebuild-empty enabled, an existing file whose count cannot
\* be read is rebuilt (every window of every available source is fetched) and
\* never skipped.
C4_UnreadableRebuiltWhenRetryEmpty ==
  (AtMonthEnd /\ startFile.kind = "corrupt" /\ retryEmpty) =>
    /\ decision \in {"written", "deferred"}
    /\ fetched = NumFetches(CurMonth)

C4_Witness ==
  /\ AtMonthEnd /\ startFile.kind = "corrupt" /\ retryEmpty
  /\ decision = "written" /\ fetched > 0

NoWorkThisRun == ~requested /\ \A ym \in MonthUniverse : writes[ym] = 0

\* C5 as stated: after a run in which every request succeeded and every month
\* was written, a second run issues no request and writes no file.
C5_SecondRunIdle ==
  (run >= 2 /\ prev.clean /\ prev.allWritten) => NoWorkThisRun

\* C5 amended: after a run in which every request succeeded and every month was
\* written, and either rebuild-empty is disabled or every written file holds at
\* least one feature, a second run issues no request and writes no file.
C5_SecondRunIdleWhenPopulated ==
  (run >= 2 /\ prev.clean /\ prev.allWritten /\ (~retryEmpty \/ prev.allNonEmpty))
    => NoWorkThisRun

C5_Witness ==
  /\ run = 2 /\ pc = "done" /\ months # <<>>
  /\ prev.clean /\ prev.allWritten /\ prev.allNonEmpty /\ retryEmpty
  /\ NoWorkThisRun

\* C6: a month whose output file exists with feature count > 0 is skipped: no
\* request is issued for it and its file is unchanged, for both values of the
\* rebuild-empty flag.
C6_PopulatedSkipped ==
  (AtMonthEnd /\ startFile.kind = "json" /\ Len(startFile.features) > 0) =>
    /\ decision = "skipped"
    /\ fetched = 0
    /\ files[CurMonth] = startFile

C6_Witness ==
  /\ AtMonthEnd /\ startFile.kind = "json" /\ Len(startFile.features) > 0
  /\ retryEmpty /\ decision = "skipped"

\* C7: a month whose existing file reports 0 features is re-fetched when
\* rebuild-empty is enabled, and skipped when it is disabled.
C7_EmptyRebuiltIffRetryEmpty ==
  (AtMonthEnd /\ startFile = Json(<<>>)) =>
    IF retryEmpty
    THEN decision # "skipped" /\ fetched = NumFetches(CurMonth)
    ELSE decision = "skipped" /\ fetched = 0

C7_Witness ==
  AtMonthEnd /\ startFile = Json(<<>>) /\ retryEmpty /\ fetched > 0 /\ requested

\* C8: a window that fails with a non-rate-limit error is skipped; every
\* remaining window and source of the month is still fetched, the month reaches
\* its write/defer decision, and the run goes through all its months.
C8_PartialFailureTolerated ==
  /\ (AtMonthEnd /\ sawErr) =>
       /\ fetched = NumFetches(CurMonth)
       /\ decision \in {"written", "deferred"}
  /\ pc = "failed" => ~IsRateLimit(httpStatusFromError(err))
  /\ pc = "done" => idx > Len(months)

C8_Witness ==
  AtMonthEnd /\ sawErr /\ sawOk /\ decision = "written" /\ Len(uniq) > 0

HasOneCopy(feats, e) ==
  /\ Cardinality({j \in 1..Len(feats) : featureKey(feats[j]) = e.k}) = 1
  /\ \E j \in 1..Len(feats) : feats[j] = e.f

\* C9: when two sources return records with the same identity key and another
\* frp, the month's written file holds exactly one feature for that key, the
\* copy that was folded first.
C9_FirstCopyWritten ==
  (AtMonthEnd /\ decision = "written" /\ crossDup) =>
    \A i \in 1..Len(firstSeen) : HasOneCopy(files[CurMonth].features, firstSeen[i])

C9_Witness ==
  /\ AtMonthEnd /\ decision = "written" /\ crossDup
  /\ Len(files[CurMonth].features) = 2

----------------------------------------------------------------------------
(* Properties of the deduplicating fold, in both pipelines *)

RetainsFirst(map, firsts) ==
  \A i \in 1..Len(firsts) :
    \E j \in 1..Len(map) : map[j].k = firsts[i].k /\ map[j].f = firsts[i].f

\* C10: in the prebake and in the batch import alike, the bucket keeps, for
\* every identity key, the first feature met with that key; later copies are
\* dropped.
C10_FirstSeenWinsEverywhere ==
  /\ RetainsFirst(uniq, firstSeen)
  /\ \A ym \in MonthUniverse : RetainsFirst(buckets[ym], impFirst[ym])

----------------------------------------------------------------------------
(* Properties of the normalizer *)

Normalized == pc = "fnDone" /\ fnIn.op = "normalize"

Unparseable(row) == ~isFinite(Number(row.latitude)) \/ ~isFinite(Number(row.longitude))

\* C11: a raw record whose latitude or longitude does not parse to a finite
\* number yields no feature in either pipeline, so the bucket that becomes the
\* written collection holds nothing built from it.
C11_UnparseableRejected ==
  (Normalized /\ Unparseable(fnIn.row)) =>
    /\ fnOut.fetchFeats = <<>>
    /\ fnOut.importFeats = <<>>
    /\ fnOut.bucket = <<>>
    /\ fnOut.importBucket = EmptyBuckets

----------------------------------------------------------------------------
(* Properties of the month assembly: sources, windows, writes *)

InFetch == pc \in {"attempting", "inflight", "backoff", "succeeded",
                   "exhausted", "failed"}

\* fetches begun for the month when the loops stand at source s, window w
FetchesUpTo(ym, s, w) ==
  Cardinality({t \in 1..(s - 1) : Applicable(ym, t)}) * Len(planWindows(ym)) + w

\* C12: no request is issued for a source whose earliest-available month is
\* after the target month; for every other configured source of a month that
\* is not skipped, one fetch is run for each planned window, in order.
C12_SourcesByStartDate ==
  /\ InFetch =>
       /\ si \in 1..Len(SOURCES) /\ wi \in 1..Len(planWindows(CurMonth))
       /\ ~ymLt(CurMonth, SourceStartYM(SOURCES[si]))
       /\ fetched = FetchesUpTo(CurMonth, si, wi)
  /\ ~InFetch => inflight = 0
  /\ (AtMonthEnd /\ decision # "skipped") =>
       fetched = FetchesUpTo(CurMonth, Len(SOURCES) + 1, 0)

C12_Witness ==
  /\ AtMonthEnd /\ decision = "written" /\ CurMonth = <<2011, 12>>
  /\ fetched = Len(planWindows(CurMonth))
  /\ requested

----------------------------------------------------------------------------
(* Properties of the window planner *)

Planned == pc = "fnDone" /\ fnIn.op = "plan"

\* the days a window asks for
WindowDays(w) == w.day..(w.day + w.dayRange - 1)

Spans(ws) == [i \in 1..Len(ws) |-> ws[i].dayRange]
Starts(ws) == [i \in 1..Len(ws) |-> ws[i].day]

\* C13: for a month of N days (N in 28..31) and ceiling 10 the planned windows
\* are in ascending start order, pairwise disjoint, cover days 1..N exactly,
\* each span is in 1..10, every window but the last has span 10 and the last
\* has the remaining days; N = 31 gives spans 10,10,10,1 starting on days
\* 1,11,21,31 and N = 28 gives spans 10,10,8.
C13_WindowsPartitionMonth ==
  Planned =>
    LET ws == fnOut.windows
        N == daysInMonth(fnIn.ym[1], fnIn.ym[2])
    IN /\ N \in 28..31
       /\ Len(ws) > 0
       /\ \A i \in 1..(Len(ws) - 1) : ws[i].day < ws[i + 1].day
       /\ \A i, j \in 1..Len(ws) :
            i # j => WindowDays(ws[i]) \cap WindowDays(ws[j]) = {}
       /\ UNION {WindowDays(ws[i]) : i \in 1..Len(ws)} = 1..N
       /\ \A i \in 1..Len(ws) : ws[i].dayRange \in 1..10
       /\ \A i \in 1..(Len(ws) - 1) : ws[i].dayRange = 10
       /\ ws[Len(ws)].dayRange = N - 10 * (Len(ws) - 1)
       /\ N = 31 => (Spans(ws) = <<10, 10, 10, 1>> /\ Starts(ws) = <<1, 11, 21, 31>>)
       /\ N = 28 => Spans(ws) = <<10, 10, 8>>

C13_Witness31 ==
  Planned /\ daysInMonth(fnIn.ym[1], fnIn.ym[2]) = 31 /\ Len(fnOut.windows) = 4

C13_Witness28 ==
  Planned /\ daysInMonth(fnIn.ym[1], fnIn.ym[2]) = 28 /\ Len(fnOut.windows) = 3

\* times ym is named among the months the run has reached
Occurrences(ym) ==
  Cardinality({i \in 1..Len(months) : i <= idx /\ months[i] = ym})

\* C14 as stated: within one run the file of any month is written at most
\* once, for every month range and every explicit list, lists naming a month
\* more than once included.
C14_WrittenAtMostOnce == \A ym \in MonthUniverse : writes[ym] <= 1

\* C14 amended: within one run the file of a month is written at most once for
\* each time the month is named, hence at most once for a range or a list
\* without repetition; a month named again is written again only under the
\* rebuild-empty policy, when the file written before holds zero features.
C14_WrittenOncePerListing ==
  /\ \A ym \in MonthUniverse : writes[ym] <= Occurrences(ym)
  /\ (AtMonthEnd /\ decision = "written" /\ writes[CurMonth] >= 2) =>
       /\ retryEmpty
       /\ readExistingCount(startFile) = 0
  /\ (AtMonthEnd /\ decision = "skipped") => files[CurMonth] = startFile

C14_Witness ==
  /\ AtMonthEnd /\ decision = "written" /\ writes[CurMonth] = 2
  /\ idx = 2 /\ months[1] = months[2]

----------------------------------------------------------------------------
(* Properties of bucket membership *)

Folded == pc = "fnDone" /\ fnIn.op = "fold"

KeysOf(feats) == {featureKey(feats[i]) : i \in 1..Len(feats)}

MapKeys(map) == {map[i].k : i \in 1..Len(map)}

OneEntryPerKey(map) == \A i, j \in 1..Len(map) : map[i].k = map[j].k => i = j

\* the import's buckets taken together
AllEntries(bs) == UNION {{bs[ym][i] : i \in 1..Len(bs[ym])} : ym \in MonthUniverse}

\* C15: folding a finite sequence of features into an empty bucket gives a
\* bucket whose key set is the set of identity keys of the sequence, whatever
\* the order and the multiplicity of the features, with exactly one entry for
\* each distinct key; in the prebake's fold and in the import's.
C15_MembershipIsKeySet ==
  Folded =>
    /\ MapKeys(fnOut.bucket) = KeysOf(fnIn.feats)
    /\ OneEntryPerKey(fnOut.bucket)
    /\ Len(fnOut.bucket) = Cardinality(KeysOf(fnIn.feats))
    /\ {e.k : e \in AllEntries(fnOut.importBucket)} = KeysOf(fnIn.feats)
    /\ \A ym \in MonthUniverse : OneEntryPerKey(fnOut.importBucket[ym])
    /\ Cardinality(AllEntries(fnOut.importBucket)) = Cardinality(KeysOf(fnIn.feats))
    /\ \A ym \in MonthUniverse :
         Len(fnOut.importBucket[ym]) =
           Cardinality({k \in KeysOf(fnIn.feats) : toMonthKey(k[3]) = ym})

\* a feature folded twice, around another one
C15_Witness ==
  /\ Folded /\ Len(fnIn.feats) = 3 /\ fnIn.feats[1] = fnIn.feats[3]
  /\ fnIn.feats[1] # fnIn.feats[2]
  /\ Len(fnOut.bucket) = 2

----------------------------------------------------------------------------
(* Properties of the write decision *)

DeferCondition == Len(uniq) = 0 /\ sawLimit

\* C16: at the end of a month that was assembled (not skipped), unless the
\* bucket is empty and a rate limit was observed, the month's file has been
\* written and holds exactly one feature for each distinct identity key
\* returned for the month, an empty collection when there were none.
C16_WrittenUnlessDeferCondition ==
  (AtMonthEnd /\ decision # "skipped" /\ ~DeferCondition) =>
    /\ decision = "written"
    /\ files[CurMonth].kind = "json"
    /\ Len(files[CurMonth].features) = Cardinality(MapKeys(uniq))
    /\ KeysOf(files[CurMonth].features) = MapKeys(uniq)
    /\ MapKeys(uniq) = {firstSeen[i].k : i \in 1..Len(firstSeen)}
    /\ writes[CurMonth] >= 1

\* a month with zero detections and no rate limiting
C16_Witness ==
  /\ AtMonthEnd /\ decision = "written"
  /\ sawOk /\ ~sawExh /\ ~sawErr /\ ~sawLimit
  /\ startFile = Absent
  /\ files[CurMonth] = Json(<<>>)

----------------------------------------------------------------------------
(* Properties of the retrying fetcher *)

\* where fetchSliceRetry stands, attempts being numbered from 0
FetcherShape ==
  /\ wreq \in 0..(MAX_RETRIES + 1)
  /\ pc = "attempting" => (wreq = attempt /\ limits = attempt)
  /\ pc = "inflight" =>
       (wreq = attempt + 1 /\ limits = attempt /\ attempt \in 0..MAX_RETRIES)
  /\ pc = "backoff" => (wreq = attempt + 1 /\ limits = attempt + 1)
  /\ pc = "succeeded" => (wreq = attempt + 1 /\ limits = attempt)
  /\ pc = "failed" =>
       /\ wreq = attempt + 1 /\ limits = attempt
       /\ ~IsRateLimit(httpStatusFromError(err))
  /\ pc = "exhausted" =>
       (wreq = MAX_RETRIES + 1 /\ limits = MAX_RETRIES + 1 /\ out = <<>>)

\* a request goes out only from Attempting(n) with n <= maxRetries, n = 0 or
\* every earlier attempt rate-limited; no request follows Succeeded, Exhausted
\* or a propagated failure within the same fetch
FetcherStep ==
  /\ (pc' = "inflight" /\ pc # "inflight") =>
       /\ pc = "attempting" /\ attempt' = attempt /\ attempt <= MAX_RETRIES
       /\ limits = attempt
       /\ wreq' = wreq + 1
  /\ pc \in {"succeeded", "exhausted", "failed"} =>
       (pc' # "inflight" /\ (wreq' = wreq \/ wreq' = 0))
  /\ attempt' # attempt => (attempt' = 0 \/ (pc = "backoff" /\ attempt' = attempt + 1))
  /\ wreq' < wreq => (wreq' = 0 /\ attempt' = 0 /\ pc' \in {"attempting", "decide", "check", "done"})

\* C17: per (source, window), attempts are numbered from 0; attempt n + 1 is
\* requested only after attempt n was answered 403/429 and only if
\* n + 1 <= maxRetries, so at most maxRetries + 1 requests go out; another
\* failure propagates after its request with no retry; after Succeeded and
\* Exhausted no request follows for that window.
C17_RetryStateMachine == []FetcherShape /\ [][FetcherStep]_vars

C17_Witness == pc = "succeeded" /\ attempt = MAX_RETRIES /\ wreq = MAX_RETRIES + 1

----------------------------------------------------------------------------
(* Properties of pacing *)

SequentialShape ==
  /\ inflight \in 0..1
  /\ (inflight = 1) <=> (pc = "inflight")
  /\ pc = "inflight" => ~owed
  /\ pc = "succeeded" => (owed /\ sleepMs = THROTTLE_MS /\ sleepMs > 0)
  /\ pc = "backoff" => (owed /\ sleepMs > 0)
  /\ owed => pc \in {"succeeded", "backoff"}

SequentialStep ==
  /\ inflight' > inflight => (inflight = 0 /\ ~owed)
  /\ (owed /\ ~owed') => (sleepMs > 0 /\ sleepMs' = 0)
  /\ (pc = "inflight" /\ pc' = "succeeded") => owed'
  /\ (pc = "inflight" /\ pc' # "inflight" /\ limits' > limits) => (owed' /\ pc' = "backoff")

\* C18: at most one request is in flight at any time, across sources, windows
\* and months; after every successful request a pacing delay, and after every
\* rate-limited response a backoff delay, elapses before the next request
\* is issued.
C18_SequentialThrottled == []SequentialShape /\ [][SequentialStep]_vars

\* a request issued after a pacing delay and a backoff delay have elapsed
C18_Witness == pc = "inflight" /\ attempt >= 1 /\ sawOk /\ inflight = 1 /\ ~owed

----------------------------------------------------------------------------
(* Properties of the backoff delay *)

----------------------------------------------------------------------------
(* Termination of a run and its request budget *)

\* steps one fetchSliceRetry can still take, at most
FetchRank ==
  4 * (MAX_RETRIES + 1 - attempt)
  + (CASE pc = "attempting" -> 3
       [] pc = "inflight" -> 2
       [] OTHER -> 1)

FetchWeight == 4 * (MAX_RETRIES + 1) + 4

\* windows of the longest month
MostWindows == (31 + DAY_MAX - 1) \div DAY_MAX

MonthWeight == (Len(SOURCES) * MostWindows + 1) * FetchWeight + 4

\* steps the current month can still take, at most
MonthRank ==
  CASE pc = "check" -> (NumFetches(CurMonth) + 1) * FetchWeight + 3
    [] pc = "decide" -> 2
    [] pc = "monthEnd" -> 1
    [] OTHER -> (NumFetches(CurMonth) - fetched) * FetchWeight + FetchRank + 2

\* a variant of the run: a natural number that every step decreases
Rank ==
  IF pc = "done" THEN 0
  ELSE (Len(months) - idx) * MonthWeight + MonthRank

RECURSIVE SumFetches(_)
SumFetches(k) ==
  IF k = 0 THEN 0 ELSE SumFetches(k - 1) + NumFetches(months[k])

RECURSIVE SumWindows(_)
SumWindows(k) ==
  IF k = 0 THEN 0 ELSE SumWindows(k - 1) + Len(planWindows(months[k]))

\* months x sources x windows of each month x (maxRetries + 1)
RequestBudget == Len(SOURCES) * SumWindows(Len(months)) * (MAX_RETRIES + 1)

RunBounded ==
  /\ Rank \in 0..(Len(months) * MonthWeight)
  /\ pc # "done" => ENABLED NextCount
  /\ nreq <= (MAX_RETRIES + 1) * (SumFetches(idx - 1) + fetched)
  /\ (MAX_RETRIES + 1) * (SumFetches(idx - 1) + fetched) <= RequestBudget
  /\ nreq <= RequestBudget

RunStep == Rank' < Rank /\ nreq' \in {nreq, nreq + 1}

\* C20: whatever sequence of success, rate-limit and other-failure responses
\* the upstream gives, a run over a finite month range terminates once every
\* request is answered and every sleep ends: until the run is done a step is
\* always possible and every step decreases a natural-number rank; the run
\* issues at most months x sources x windows per month x (maxRetries + 1)
\* requests.
C20_RunTerminatesWithinBudget == []RunBounded /\ [][RunStep]_vars

\* the longest run: both months, every request rate-limited
C20_Witness ==
  /\ pc = "done" /\ Len(months) = 2
  /\ nreq = (MAX_RETRIES + 1) * SumFetches(Len(months))
  /\ nreq = 60

====
